---- MODULE Spec2Model ----
(***************************************************************************)
(* The adaptive feed scheduler of rss_feeder: FeedScheduler (scheduler.py) *)
(* driving RSSFetcher (rss_fetcher.py), FeedManager (feed_manager.py),     *)
(* StorageManager and KafkaPublisher.                                      *)
(*                                                                         *)
(* Conventions.  Python's None is the string "None"; a missing or empty    *)
(* string field is "".  Intervals are whole seconds: x * 0.8 and x * 1.2   *)
(* are computed as (x * 4) \div 5 and (x * 6) \div 5, and the value of     *)
(* random.uniform(0, JITTER_SECONDS) is drawn from JitterValues.  Python   *)
(* integers are unbounded, so 3600 * 2 ** n is computed on limb sequences  *)
(* (BigTimes, BigPow), never on machine integers.  sha256 and md5 are     *)
(* taken to be collision free on the URLs of the model: a digest is the    *)
(* URL tagged with the algorithm's name.                                   *)
(***************************************************************************)
EXTENDS Integers, Sequences, FiniteSets, TLC

None == "None"

\* The interval of a feeds.json record whose "interval" is not a number
\* (null, a string): the model holds no negative interval otherwise.
NotANumber == 0 - 1

(***************************** config.py ***********************************)
MIN_POLL_INTERVAL == 300
MAX_POLL_INTERVAL == 86400
POLL_BACKOFF_FACTOR == 2
DEFAULT_FEED_INTERVAL == 3600
JITTER_SECONDS == 30

(************************* bounds of the model *****************************)
\* Largest error count a source reaches while its fetches can succeed.
MaxErrors == 2
\* Largest error count a source reaches while every fetch of it fails.
MaxFailures == 31
\* Executor slots per job: one more than max_instances, so that an executor
\* that admitted a second instance of a job would show it.
MaxSlots == 2

\* Records in the feeds.json of a batch.
MaxRecords == 3

\* Direct calls of _add_feed_job the model follows.
MaxRegistrations == 3

\* The entries of the feed of a busy source: more than the 20 from which
\* the policy speeds a source up.
BusyEntries == 25

\* The longest list handed to filter_valid_articles, and the number of its
\* calls followed.
MaxBatch == 2
MaxCalls == 3

\* The writes of feeds.json and the calls of load_feeds followed on one
\* FeedManager.
MaxEdits == 2
MaxLoads == 3

\* The values random.uniform(0, JITTER_SECONDS) takes in the model.
JitterValues == {0, 25}

(****************************** universe ***********************************)
FeedNames == {"a", "b"}
FeedUrls == {"fa", "fb"}
ArticleUrls == {"u1", "u2"}

Entry(link, title, published) ==
    [link |-> link, title |-> title, published |-> published]

\* The documents a fetch can parse into (feedparser's entries): an empty
\* feed, a feed with two complete entries, and a feed whose first entry has
\* no link and whose second has a link but no title.
Docs ==
    { <<>>,
      << Entry("u1", "T", "P"), Entry("u2", "T", "P") >>,
      << Entry("", "T", "P"), Entry("u1", "", "P") >> }

\* The links of a busy feed.
BusyUrls == {"n" \o ToString(k) : k \in 1..BusyEntries}

\* A feed of BusyEntries complete entries, each with a link of its own.
BusyDoc == [k \in 1..BusyEntries |-> Entry("n" \o ToString(k), "T", "P")]

\* What fetch_feed hands to _poll_single_feed: None on 304, an exception on a
\* transport error or a status other than 200/304, else the parsed document
\* (bozo when the body is malformed).  hint is what the document says of its
\* last update (feed.updated_parsed): "absent" when it says nothing.
FetchResults ==
    { [kind |-> "not_modified", entries |-> <<>>, hint |-> "absent"],
      [kind |-> "error", entries |-> <<>>, hint |-> "absent"] }
    \cup { [kind |-> "bozo", entries |-> d, hint |-> "absent"] : d \in {<<>>} }
    \cup { [kind |-> "ok", entries |-> d, hint |-> "absent"] : d \in Docs }

\* Parsed documents that carry updated_parsed: less than an hour, less than
\* a day, or a day or more old.
HintedResults ==
    { [kind |-> "ok", entries |-> d, hint |-> h] :
        d \in Docs, h \in {"lt_hour", "lt_day", "older"} }

(************************ unbounded integers *******************************)
\* A natural number as its base-10000 limbs, least significant first.
BigBase == 10 * 1000

RECURSIVE BigTimes(_, _, _)
\* x * m + carry for a limb sequence x and small naturals m, carry.
BigTimes(x, m, carry) ==
    IF x = <<>>
    THEN IF carry = 0 THEN <<>>
         ELSE <<carry % BigBase>> \o BigTimes(<<>>, m, carry \div BigBase)
    ELSE LET v == Head(x) * m + carry
         IN  <<v % BigBase>> \o BigTimes(Tail(x), m, v \div BigBase)

RECURSIVE BigPow(_, _)
\* base ** n
BigPow(base, n) ==
    IF n = 0 THEN <<1>> ELSE BigTimes(BigPow(base, n - 1), base, 0)

\* min(x, m) for a limb sequence x and a natural m < BigBase * BigBase.
BigMin(x, m) ==
    IF Len(x) > 2 THEN m
    ELSE LET v == (IF Len(x) >= 1 THEN x[1] ELSE 0)
                  + (IF Len(x) = 2 THEN x[2] * BigBase ELSE 0)
         IN  IF v < m THEN v ELSE m

(*************************** feed_manager.py *******************************)
\* A record of feeds.json is a dict: keys is the set of keys the record
\* holds, and a field whose key is absent is never read.  The timestamps
\* last_error, last_success and last_updated are present or absent.
FeedRecord(keys, name, url, interval, error_count, active) ==
    [keys |-> keys, name |-> name, url |-> url, interval |-> interval,
     error_count |-> error_count, active |-> active]

\* The priority of a record whose "priority" is a JSON list or object: a
\* value that cannot be hashed, so FEED_PRIORITIES.get(priority, 2) raises.
Unhashable == "unhashable"

\* The record with its "priority" key set.
Prioritized(feed, priority) ==
    [k \in DOMAIN feed \cup {"priority"} |->
        IF k = "priority" THEN priority
        ELSE IF k = "keys" THEN feed.keys \cup {"priority"}
        ELSE feed[k]]

\* feed.get(key): falsy when the key is absent or the string is empty.
HasText(feed, key) ==
    key \in feed.keys /\ (IF key = "name" THEN feed.name ELSE feed.url) # ""

\* A name or url that is true but not a str: a JSON number, list or object.
NotAString == "not a string"

\* An entry of the file that is not a JSON object: it holds no key.
NotADict == FeedRecord({}, NotAString, NotAString, 0, 0, TRUE)

_validate_feed(feed) ==
    /\ feed # NotADict
    /\ \A field \in {"name", "url"} : HasText(feed, field)
    /\ feed.name # NotAString /\ feed.url # NotAString

\* A deduplication that tells the sources apart by name only.
FeedIdByName(feed) == <<feed.name, "">>

\* feed_id, the pair load_feeds tracks in seen.
FeedId(feed) == <<feed.name, feed.url>>

_apply_defaults(feed) ==
    [keys |-> {"name", "url", "interval", "priority", "last_updated",
               "error_count", "active"},
     name |-> feed.name,
     url |-> feed.url,
     interval |-> IF "interval" \in feed.keys THEN feed.interval
                  ELSE DEFAULT_FEED_INTERVAL,
     priority |-> IF "priority" \in feed.keys THEN feed.priority ELSE "medium",
     error_count |-> IF "error_count" \in feed.keys THEN feed.error_count ELSE 0,
     active |-> IF "active" \in feed.keys THEN feed.active ELSE TRUE]

RECURSIVE LoadFrom(_, _)
\* The loop of load_feeds over the parsed file: valid records in file order,
\* the first of each (name, url) pair.
LoadFrom(feeds, seen) ==
    IF feeds = <<>> THEN <<>>
    ELSE LET feed == Head(feeds)
         IN  IF _validate_feed(feed) /\ FeedId(feed) \notin seen
             THEN <<_apply_defaults(feed)>>
                  \o LoadFrom(Tail(feeds), seen \cup {FeedId(feed)})
             ELSE LoadFrom(Tail(feeds), seen)

\* A fresh FeedManager has no cache: load_feeds parses the file.
load_feeds(file) == LoadFrom(file, {})

get_active_feeds(file) ==
    SelectSeq(load_feeds(file), LAMBDA feed : feed.active)

\* What can be found at the path of feeds.json: a JSON text that can be
\* iterated, no file (getmtime raises), a file that cannot be opened, a
\* text that is not JSON, and JSON that cannot be iterated (a number, null).
FileConditions == {"ok", "missing", "denied", "invalid json", "not iterable"}

\* A load_feeds with its first except clause only.
CaughtIfJson(io) == io = "invalid json"

\* The except clauses of load_feeds, JSONDecodeError and Exception, take
\* whatever the try block raises.
Caught(io) == TRUE

\* load_feeds raises to its caller.
LoadRaises(io) == io # "ok" /\ ~Caught(io)

\* load_feeds on the file as found: the except clauses return [].
LoadFeeds(io, file) == IF io = "ok" THEN load_feeds(file) ELSE <<>>

\* get_active_feeds on the file as found.
ActiveFeeds(io, file) ==
    SelectSeq(LoadFeeds(io, file), LAMBDA feed : feed.active)

\* The index of the record at which the loop of update_feed_status stops:
\* the first record that is named feed_name or that has no name key (where
\* feed['name'] raises KeyError); 0 when the loop runs to the end.
FirstNamed(file, feed_name) ==
    LET hits == {i \in 1..Len(file) :
                    "name" \notin file[i].keys \/ file[i].name = feed_name}
    IN  IF hits = {} THEN 0 ELSE CHOOSE i \in hits : \A j \in hits : i <= j

\* update_feed_status(feed_name, status) for the two status dicts the
\* scheduler writes: {last_error, error_count} and {last_success,
\* error_count}.  stamp is "last_error" or "last_success".  Any exception (an
\* I/O error, io_ok false, or the KeyError) is logged and the file is left
\* as it was; with no record of that name the file is rewritten unchanged.
update_feed_status(file, feed_name, stamp, error_count, io_ok) ==
    LET i == FirstNamed(file, feed_name)
    IN  IF ~io_ok \/ i = 0 THEN file
        ELSE IF "name" \notin file[i].keys THEN file
        ELSE [file EXCEPT ![i] =
                [@ EXCEPT !.keys = @ \cup {stamp, "error_count", "last_updated"},
                          !.error_count = error_count]]

(***************************** rss_fetcher.py ******************************)
\* hashlib.sha256(url).hexdigest()
Sha256(url) == <<"sha256", url>>

\* _is_duplicate without its seen_urls.add.
SeenAddForgotten(seen, url_hash) == seen

\* The set _is_duplicate leaves in seen_urls when it returns False.
SeenAdd(seen, url_hash) == seen \cup {url_hash}

\* A membership test that never finds the digest.
SeenHasNever(seen, url_hash) == FALSE

\* The membership test of _is_duplicate.
SeenHas(seen, url_hash) == url_hash \in seen

_create_article_dict(entry, feed_name) ==
    [title |-> entry.title, link |-> entry.link,
     published |-> entry.published, source |-> feed_name]

\* The value of a field the article has no key for.
Missing == "missing"

\* A validation that looks at the title only.
ValidateTitle(article) == article.title \notin {Missing, ""}

\* Validator.validate_article: title, link and published present and non-empty.
validate_article(article) ==
    \A field \in {"title", "link", "published"} :
        article[field] # Missing /\ article[field] # ""

(**************************** kafka_publisher.py ***************************)
KAFKA_TOPIC == "rss_articles"
KAFKA_DEAD_LETTER_TOPIC == "dead_letter_articles"
SEND_TO_DEAD_LETTER_TOPIC == TRUE

\* _handle_invalid_message(message, reason): the sends it makes.  Building
\* error_message evaluates datetime.utcnow(), and the module does not import
\* datetime: the NameError is raised inside the try, before producer.send,
\* and the except clause logs it.
_handle_invalid_message(message, reason) == <<>>

\* publish(topic, message): what it returns and the sends the producer
\* accepted, as <<topic, value>> pairs.  send_ok: producer.send does not raise.
publish(topic, message, send_ok) ==
    IF ~validate_article(message)
    THEN [returned |-> FALSE,
          sends |-> _handle_invalid_message(message, "Invalid article structure")]
    ELSE IF send_ok
    THEN [returned |-> TRUE, sends |-> << <<topic, message>> >>]
    ELSE [returned |-> FALSE,
          sends |-> _handle_invalid_message(message, "send raised")]

(****************************** scheduler.py *******************************)
\* hashlib.md5(feed_url).hexdigest()[:8]
Md5Prefix(feed_url) == <<"md5", feed_url>>

\* job_id = f"{feed_name}_{url_hash}"
JobId(feed_name, feed_url) == <<feed_name, Md5Prefix(feed_url)>>

JobIds == {JobId(n, u) : n \in FeedNames, u \in FeedUrls}

\* The executor's worker threads, one per instance of a job it may run.
Slots == JobIds \X (1..MaxSlots)

\* A job allowed two concurrent instances.
TwoInstances == 1 + 1

\* job_defaults and add_job: max_instances = 1.
max_instances == 1

\* dict.get(key, default)
Get(dict, key, default) == IF key \in DOMAIN dict THEN dict[key] ELSE default

\* dict[key] = value
Put(dict, key, value) ==
    [k \in DOMAIN dict \cup {key} |-> IF k = key THEN value ELSE dict[k]]

Abs(x) == IF x < 0 THEN 0 - x ELSE x

\* The backoff with the exponent one too small.
BackoffLate(error_count) ==
    IF error_count = 0 THEN DEFAULT_FEED_INTERVAL
    ELSE BigMin(BigTimes(BigPow(POLL_BACKOFF_FACTOR, error_count - 1),
                         DEFAULT_FEED_INTERVAL, 0),
                MAX_POLL_INTERVAL)

\* The pre-jitter backoff of _process_failed_poll:
\* min(DEFAULT_FEED_INTERVAL * POLL_BACKOFF_FACTOR ** error_count, MAX_POLL_INTERVAL)
Backoff(error_count) ==
    BigMin(BigTimes(BigPow(POLL_BACKOFF_FACTOR, error_count),
                    DEFAULT_FEED_INTERVAL, 0),
           MAX_POLL_INTERVAL)

\* A guard that lets every change through.
IntervalGateOpen(current_interval, new_interval) == TRUE

\* The guard of _update_feed_interval: no current interval (None or 0), or a
\* change of more than 60 seconds.  current = 0 stands for both falsy values.
IntervalGate(current_interval, new_interval) ==
    current_interval = 0 \/ Abs(current_interval - new_interval) > 60

RECURSIVE LoadConfigs(_, _, _)
\* _load_feed_configs: field is "interval" or "error_count".
LoadConfigs(feeds, dict, field) ==
    IF feeds = <<>> THEN dict
    ELSE LoadConfigs(Tail(feeds),
                     Put(dict, Head(feeds).name,
                         IF field = "interval" THEN Head(feeds).interval
                         ELSE Head(feeds).error_count),
                     field)

EmptyDict == [k \in {} |-> 0]

(******************************* validator.py *****************************)
\* A counter that starts again with every invalid article.
CountFirst(counter, feed_name) == Put(counter, feed_name, 1)

\* cls.failed_articles_counter[feed_name] =
\*     cls.failed_articles_counter.get(feed_name, 0) + 1
CountFailed(counter, feed_name) ==
    Put(counter, feed_name, Get(counter, feed_name, 0) + 1)

RECURSIVE FilterLoop(_, _, _)
\* The loop of filter_valid_articles over the articles left, from the class
\* state and the valid_articles in acc.
FilterLoop(articles, feed_name, acc) ==
    IF articles = <<>> THEN acc
    ELSE LET article == Head(articles)
         IN  FilterLoop(Tail(articles), feed_name,
                IF validate_article(article)
                THEN [acc EXCEPT !.returned = Append(@, article)]
                ELSE [acc EXCEPT
                        !.failed_articles_counter = CountFailed(@, feed_name),
                        !.publish_calls =
                            IF SEND_TO_DEAD_LETTER_TOPIC THEN @ + 1 ELSE @])

\* A remove_job that leaves the job where it is.
RemoveNothing(table, job_id) == table

\* scheduler.remove_job(job_id); the JobLookupError of an unknown id is
\* passed over by _add_feed_job.
remove_job(table, job_id) == [k \in DOMAIN table \ {job_id} |-> table[k]]

\* The statement scheduler.add_job(..., id=job_id, priority=...) inside the
\* try of _add_feed_job: with the id taken (ConflictingIdError), or with a
\* priority that cannot be hashed (TypeError), the exception is logged and the
\* table is left as it is.
add_job(table, job_id, job, priority) ==
    IF job_id \in DOMAIN table \/ priority = Unhashable THEN table
    ELSE Put(table, job_id, job)

\* IntervalTrigger(seconds=interval) raises TypeError for an interval that
\* is not a number; the call stands before the try of _add_feed_job.
TriggerRaises(intervals, feed) ==
    Get(intervals, feed.name, DEFAULT_FEED_INTERVAL) = NotANumber

\* _add_feed_job: the job table after (re)registering feed, or, when the
\* trigger cannot be built, as the exception leaves it.
_add_feed_job(table, intervals, feed) ==
    LET job_id == JobId(feed.name, feed.url)
        interval == Get(intervals, feed.name, DEFAULT_FEED_INTERVAL)
    IN  IF feed.name = "" \/ feed.url = "" THEN table
        ELSE IF TriggerRaises(intervals, feed) THEN remove_job(table, job_id)
        ELSE add_job(remove_job(table, job_id), job_id,
                     [name |-> feed.name, url |-> feed.url, interval |-> interval],
                     feed.priority)

\* _add_feed_job(feed) raises.
AddRaises(intervals, feed) ==
    feed.name # "" /\ feed.url # "" /\ TriggerRaises(intervals, feed)

RECURSIVE AddJobs(_, _, _)
\* The registration loop of start(): it ends with the list, or with the
\* first feed whose _add_feed_job raises.
AddJobs(feeds, table, intervals) ==
    IF feeds = <<>> THEN table
    ELSE IF AddRaises(intervals, Head(feeds))
    THEN _add_feed_job(table, intervals, Head(feeds))
    ELSE AddJobs(Tail(feeds),
                 _add_feed_job(table, intervals, Head(feeds)),
                 intervals)

\* The loop of start() raises.
LoopRaises(feeds, intervals) ==
    \E k \in 1..Len(feeds) : AddRaises(intervals, feeds[k])

(******************************* state *************************************)
VARIABLES
    updates,          \* per executor thread, the update_feed_status call in it
    feeds_io,         \* feeds.json as found on disk: one of FileConditions
    feeds_file,       \* feeds.json: the sequence of feed records
    feed_intervals,   \* FeedScheduler.feed_intervals: name -> seconds
    feed_errors,      \* FeedScheduler.feed_errors: name -> error count
    jobs,             \* the scheduler's job table: job id -> job
    started,          \* scheduler.start() has run
    stopped,          \* scheduler.shutdown() has stopped the scheduler
    closed,           \* RSSFetcher.close() has run: session and producer are closed
    stopping,         \* the place of the shutdown() call in progress
    done,             \* a call of shutdown() has returned
    raised,           \* the calls of start() and shutdown() that raised
    registrations,    \* the direct calls of _add_feed_job made so far
    polls,            \* per executor slot, the _poll_single_feed call in it
    missed,           \* jobs with a firing skipped during their running poll
    seen_urls,        \* RSSFetcher.seen_urls: the sha256 digests seen
    proposed,         \* name -> the interval last computed for it (backoff or new_interval)
    unseen_returns,   \* per article URL, the calls of _is_duplicate that returned False
    accepted,         \* per article URL, the times it was appended to valid_articles
    parsed_articles,  \* per article URL, its records in the parsed_articles files
    articles_master,  \* per article URL, its records in articles.json
    kafka_topic,      \* per article URL, the messages sent to KAFKA_TOPIC
    publish_call,     \* the last direct call of KafkaPublisher.publish
    validation,       \* Validator's class state and its last filter_valid_articles call
    manager           \* a FeedManager that is kept and called again

sched == <<updates, feeds_io, feeds_file, feed_intervals, feed_errors, jobs, proposed>>
dedup == <<seen_urls, unseen_returns, accepted>>
direct == <<publish_call, validation, manager>>
sinks == <<parsed_articles, articles_master, kafka_topic, direct>>
life == <<started, stopped, closed, stopping, done, raised, registrations>>
vars == <<sched, life, polls, missed, dedup, sinks>>

\* No direct call of publish yet.
NoCall ==
    [topic |-> "", message |-> Entry("", "", ""), send_ok |-> FALSE,
     returned |-> FALSE, sends |-> <<>>]

\* The Validator class as loaded: an empty failed_articles_counter, no call
\* of filter_valid_articles made.  passed counts, per feed, the invalid
\* articles handed to the calls made; publish_calls counts the calls of
\* kafka_publisher.publish.
NoFilter ==
    [failed_articles_counter |-> EmptyDict, passed |-> EmptyDict,
     publish_calls |-> 0, calls |-> 0,
     articles |-> <<>>, feed_name |-> "", returned |-> <<>>]

\* FeedManager.__init__: cached_feeds None (the empty sequence stands for it,
\* both being false) and last_modified 0.  mtime is the modification time
\* of feeds.json, parsed_mtime the modification time at the last parse whose
\* result was cached and not invalidated since (0: none), loads the calls of
\* load_feeds made, hit whether the last one returned the cache.
NewManager ==
    [cached_feeds |-> <<>>, last_modified |-> 0, mtime |-> 1,
     parsed_mtime |-> 0, loads |-> 0, hit |-> FALSE, returned |-> <<>>]

\* The threads of the executor's pool that run update_feed_status.
Threads == 1..MaxSlots

\* No call of update_feed_status in the thread.
NoUpdate ==
    [pc |-> "idle", feed_name |-> "", stamp |-> "", error_count |-> 0,
     feeds |-> <<>>, outcome |-> "none"]

NoData == [kind |-> "none", entries |-> <<>>, hint |-> "absent"]

\* An idle slot.  pc is the place of the call: fetch (in fetch_feed), handle
\* (fetch_feed returned or raised), check (at the membership test of
\* _is_duplicate for entry i), add (between the test and seen_urls.add), save
\* (in _save_and_publish_articles, before the store), publish (before the
\* publish of valid_articles[i]).  pre_seen is seen_urls as the poll started.
Idle ==
    [pc |-> "idle", feed_data |-> NoData, i |-> 0,
     valid_articles |-> <<>>, pre_seen |-> {}]

FeedNameOf(s) == s[1][1]

Zeroes(urls) == [u \in urls |-> 0]

\* The state FeedScheduler() leaves, for feeds.json as found and the article
\* URLs the feeds can carry.
InitAt(io, file, urls) ==
    /\ updates = [c \in Threads |-> NoUpdate]
    /\ feeds_io = io
    /\ feeds_file = file
    /\ feed_intervals = LoadConfigs(ActiveFeeds(io, file), EmptyDict, "interval")
    /\ feed_errors = LoadConfigs(ActiveFeeds(io, file), EmptyDict, "error_count")
    /\ jobs = EmptyDict
    /\ started = FALSE
    /\ stopped = FALSE
    /\ closed = FALSE
    /\ stopping = "idle"
    /\ done = FALSE
    /\ raised = {}
    /\ registrations = 0
    /\ polls = [s \in Slots |-> Idle]
    /\ missed = {}
    /\ seen_urls = {}
    /\ proposed = EmptyDict
    /\ unseen_returns = Zeroes(urls)
    /\ accepted = Zeroes(urls)
    /\ parsed_articles = Zeroes(urls)
    /\ articles_master = Zeroes(urls)
    /\ kafka_topic = Zeroes(urls)
    /\ publish_call = NoCall
    /\ validation = NoFilter
    /\ manager = NewManager

\* The same for a feeds.json that can be read.
InitOver(file, urls) == InitAt("ok", file, urls)

InitWith(file) == InitOver(file, ArticleUrls)

\* Two sources: one that leaves every optional key out, one polled every two hours.
TwoFeeds ==
    << FeedRecord({"name", "url"}, "a", "fa", 0, 0, TRUE),
       FeedRecord({"name", "url", "interval", "error_count", "active"},
                  "b", "fb", 7200, 0, TRUE) >>

\* Two active sources of one name at different URLs.
Namesakes ==
    << FeedRecord({"name", "url"}, "a", "fa", 0, 0, TRUE),
       FeedRecord({"name", "url"}, "a", "fb", 0, 0, TRUE) >>

\* A single source.
OneFeed == << FeedRecord({"name", "url"}, "a", "fa", 0, 0, TRUE) >>

\* The intervals feeds.json gives the source the policy is called on: none
\* of them is checked by load_feeds.
PolicyIntervals == {0, 250, 360, 361, 1810, 3600, 72000, 86400}

OneFeedEvery(interval) ==
    << FeedRecord({"name", "url", "interval"}, "a", "fa", interval, 0, TRUE) >>

\* The intervals a run of busy polls starts from, and those a run of empty
\* polls starts from, all within MIN_POLL_INTERVAL..MAX_POLL_INTERVAL; the
\* products with 0.8 and 1.2 they lead to are whole numbers or are cut off
\* by max and min.
BusyStarts == {300, 350, 360, 361, 450, 500, 625}
QuietStarts == {50000, 60000, 72000, 86339, 86340, 86350, 86400}

\* The busy source a and the quiet source b at their intervals.
TwoFeedsEvery(busy, quiet) ==
    << FeedRecord({"name", "url", "interval"}, "a", "fa", busy, 0, TRUE),
       FeedRecord({"name", "url", "interval"}, "b", "fb", quiet, 0, TRUE) >>

\* The records a batch is made of: two good sources, a record with no url,
\* one with no name, an inactive source, a source whose interval is not a
\* number and a source whose priority cannot be hashed.
BatchRecords ==
    { FeedRecord({"name", "url"}, "a", "fa", 0, 0, TRUE),
      FeedRecord({"name", "url", "interval", "error_count", "active"},
                 "b", "fb", 7200, 0, TRUE),
      FeedRecord({"name"}, "b", "", 0, 0, TRUE),
      FeedRecord({"url"}, "", "fa", 0, 0, TRUE),
      FeedRecord({"name", "url", "active"}, "b", "fa", 0, 0, FALSE),
      FeedRecord({"name", "url", "interval"}, "a", "fb", NotANumber, 0, TRUE),
      Prioritized(FeedRecord({"name", "url"}, "b", "fa", 0, 0, TRUE), Unhashable) }

\* The feeds.json files of up to MaxRecords records.
Registries == UNION {[1..n -> BatchRecords] : n \in 0..MaxRecords}

\* The entries a file to load is made of: a source, the same (name, url)
\* pair again with other settings, a namesake at another URL, an inactive
\* source, a record with an empty name, one with no url, one whose name and
\* one whose url is not a string, and an entry that is not an object.
LoadRecords ==
    { FeedRecord({"name", "url"}, "a", "fa", 0, 0, TRUE),
      FeedRecord({"name", "url", "interval"}, "a", "fa", 7200, 0, TRUE),
      FeedRecord({"name", "url"}, "a", "fb", 0, 0, TRUE),
      FeedRecord({"name", "url", "active"}, "b", "fb", 0, 0, FALSE),
      FeedRecord({"name", "url"}, "", "fb", 0, 0, TRUE),
      FeedRecord({"name"}, "b", "", 0, 0, TRUE),
      FeedRecord({"name", "url"}, NotAString, "fa", 0, 0, TRUE),
      FeedRecord({"name", "url"}, "b", NotAString, 0, 0, TRUE),
      NotADict }

\* The feeds.json files of up to MaxRecords such entries.
LoadFiles == UNION {[1..n -> LoadRecords] : n \in 0..MaxRecords}

\* The files update_feed_status is called on: two sources, and a record
\* without a name ahead of a source.
UpdateFiles ==
    { TwoFeeds,
      << FeedRecord({"url"}, "", "fb", 0, 0, TRUE),
         FeedRecord({"name", "url"}, "a", "fa", 0, 0, TRUE) >> }

\* The files the kept FeedManager reads: no record, a source, and an entry
\* that is no source.
CacheFiles == {<<>>, OneFeed, <<NotADict>>}

Init == InitWith(TwoFeeds)

InitCache == \E file \in CacheFiles : InitWith(file)

InitRuns ==
    \E busy \in BusyStarts, quiet \in QuietStarts :
        InitWith(TwoFeedsEvery(busy, quiet))

InitNamesakes == InitWith(Namesakes)

InitUpdate == \E file \in UpdateFiles : InitWith(file)

InitLoad ==
    \E io \in FileConditions, file \in LoadFiles : InitAt(io, file, ArticleUrls)

InitBatch == \E file \in Registries : InitWith(file)

InitSolo == InitWith(OneFeed)

\* One source whose feed is busy.
InitBusy == InitOver(OneFeed, BusyUrls)

InitPolicy == \E interval \in PolicyIntervals : InitWith(OneFeedEvery(interval))

StoreOutcomes == {"ok", "parsed_raises", "master_raises"}

\* An environment of the scheduler: the results a fetch can have, the values
\* the jitter draws, whether writing feeds.json succeeds, what the store
\* calls do, whether producer.send succeeds, and the error count at which
\* the model stops following a source.
EnvAll ==
    [results |-> FetchResults, jitters |-> JitterValues, io |-> BOOLEAN,
     store |-> StoreOutcomes, send |-> BOOLEAN, cap |-> MaxErrors]

\* A calm environment: a fetch fails outright or parses into a document,
\* the jitter draws 0, and the files and the broker can be written.
EnvCalm ==
    [EnvAll EXCEPT !.results = {r \in FetchResults : r.kind \in {"error", "ok"}},
                   !.jitters = {0}, !.io = {TRUE}, !.store = {"ok"},
                   !.send = {TRUE}]

\* Every fetch fails: the sources are down.
EnvDown ==
    [EnvAll EXCEPT !.results = {r \in FetchResults : r.kind \in {"error", "bozo"}},
                   !.cap = MaxFailures]

\* A busy source: every fetch parses into the busy feed, and nothing else
\* fails.
EnvBusy ==
    [EnvCalm EXCEPT !.results = {[kind |-> "ok", entries |-> BusyDoc, hint |-> "absent"]}]

\* Every exception a poll can meet: the fetch raises, the store calls raise,
\* and a feed with entries ends in the TypeError of "processed > 0".
EnvStorm ==
    [EnvCalm EXCEPT !.results =
                        {[kind |-> "error", entries |-> <<>>, hint |-> "absent"],
                         [kind |-> "ok", hint |-> "absent",
                          entries |-> <<Entry("u1", "T", "P"), Entry("u2", "T", "P")>>]},
                    !.store = StoreOutcomes]

\* Feeds that share a link: complete entries in one document, an entry
\* without a title in the other.
EnvShared ==
    [EnvCalm EXCEPT !.results =
                        {[kind |-> "ok", entries |-> d, hint |-> "absent"] :
                            d \in Docs \ {<<>>}}]

\* A quiet source: every fetch parses into a feed without entries.
EnvQuiet ==
    [EnvCalm EXCEPT !.results =
        {[kind |-> "ok", entries |-> <<>>, hint |-> "absent"]}]

\* A source whose feed says when it was last updated, and nothing fails.
EnvHinted == [EnvCalm EXCEPT !.results = HintedResults]

\* Sources that are down, followed for a few failures only.
EnvBrief == [EnvDown EXCEPT !.cap = MaxErrors]

(****************************** actions ************************************)
\* FeedScheduler.start(): remove_all_jobs, the registration loop and
\* scheduler.start(), which the call does not reach when the loop raises.
Start ==
    /\ ~started
    /\ LET feeds == ActiveFeeds(feeds_io, feeds_file)
       IN  IF LoadRaises(feeds_io)
           THEN /\ jobs' = EmptyDict
                /\ started' = FALSE /\ raised' = raised \cup {"start"}
           ELSE /\ jobs' = AddJobs(feeds, EmptyDict, feed_intervals)
                /\ IF LoopRaises(feeds, feed_intervals)
                   THEN started' = FALSE /\ raised' = raised \cup {"start"}
                   ELSE started' = TRUE /\ raised' = raised
    /\ UNCHANGED <<updates, feeds_io, feeds_file, feed_intervals, feed_errors, proposed,
                   stopped, closed, stopping, done, registrations,
                   polls, missed, dedup, sinks>>

Running(j) == Cardinality({k \in 1..MaxSlots : polls[<<j, k>>].pc # "idle"})

FreeSlot(j) ==
    CHOOSE k \in 1..MaxSlots :
        /\ polls[<<j, k>>].pc = "idle"
        /\ \A l \in 1..MaxSlots : polls[<<j, l>>].pc = "idle" => k <= l

\* The trigger of job j fires and the executor runs _poll_single_feed.
Fire(j) ==
    /\ started /\ ~stopped
    /\ j \in DOMAIN jobs
    /\ Running(j) < max_instances
    /\ Running(j) < MaxSlots
    /\ polls' = [polls EXCEPT ![<<j, FreeSlot(j)>>] =
                    [Idle EXCEPT !.pc = "fetch", !.pre_seen = seen_urls]]
    /\ UNCHANGED <<sched, life, missed, dedup, sinks>>

\* The trigger of job j fires while max_instances instances are running: the
\* executor refuses the run and the scheduler skips it.
FireSkipped(j) ==
    /\ started /\ ~stopped
    /\ j \in DOMAIN jobs
    /\ Running(j) >= max_instances
    /\ missed' = missed \cup {j}
    /\ UNCHANGED <<sched, life, polls, dedup, sinks>>

\* fetch_feed returns or raises.
Fetch(s, E) ==
    /\ polls[s].pc = "fetch"
    /\ \E r \in E.results :
          polls' = [polls EXCEPT ![s].pc = "handle", ![s].feed_data = r]
    /\ UNCHANGED <<sched, life, missed, dedup, sinks>>

\* _poll_single_feed returns: the slot is free again.
Complete(s) ==
    /\ polls' = [polls EXCEPT ![s] = Idle]
    /\ missed' = missed \ {s[1]}

\* _update_feed_interval(feed_name, new_interval).  get_jobs() lists the jobs
\* by next run time, so jobs[0] is any of the jobs named "Poll <feed_name>".
_update_feed_interval(feed_name, new_interval) ==
    IF IntervalGate(Get(feed_intervals, feed_name, 0), new_interval)
    THEN /\ feed_intervals' = Put(feed_intervals, feed_name, new_interval)
         /\ LET named == {j \in DOMAIN jobs : jobs[j].name = feed_name}
            IN  IF named = {} THEN jobs' = jobs
                ELSE \E j \in named : jobs' = [jobs EXCEPT ![j].interval = new_interval]
    ELSE UNCHANGED <<feed_intervals, jobs>>

Max(x, y) == IF x > y THEN x ELSE y

Min(x, y) == IF x < y THEN x ELSE y

\* What a parsed feed says of its last update: no updated_parsed at all, or
\* one less than an hour, less than a day, or a day or more old.
Hints == {"absent", "lt_hour", "lt_day", "older"}

\* len(feed_data.entries) in the three ranges the policy tells apart.
EntryCounts == {0, 5, 25}

\* _calculate_server_interval: 0 stands for None.
_calculate_server_interval(hint) ==
    IF hint = "lt_hour" THEN MIN_POLL_INTERVAL
    ELSE IF hint = "lt_day" THEN 1800
    ELSE 0

\* new_interval of _adjust_interval_based_on_activity.
NewInterval(current_interval, entry_count, hint) ==
    LET by_count ==
            IF entry_count > 20
            THEN Max((current_interval * 4) \div 5, MIN_POLL_INTERVAL)
            ELSE IF entry_count = 0
            THEN Min((current_interval * 6) \div 5, MAX_POLL_INTERVAL)
            ELSE current_interval
        server_interval == _calculate_server_interval(hint)
    IN  IF hint # "absent" /\ server_interval # 0
        THEN Max(server_interval, MIN_POLL_INTERVAL)
        ELSE by_count

\* _adjust_interval_based_on_activity(feed_name, feed_data)
_adjust_interval_based_on_activity(feed_name, entry_count, hint) ==
    LET current_interval == Get(feed_intervals, feed_name, DEFAULT_FEED_INTERVAL)
        new_interval == NewInterval(current_interval, entry_count, hint)
    IN  /\ proposed' = Put(proposed, feed_name, new_interval)
        /\ IF new_interval # current_interval
           THEN _update_feed_interval(feed_name, new_interval)
           ELSE UNCHANGED <<feed_intervals, jobs>>

\* A direct call of _adjust_interval_based_on_activity, the first for this
\* source.  No poll makes it: "processed > 0" raises before
\* _process_successful_poll reaches it.
Adjust(feed_name, entry_count, hint) ==
    /\ feed_name \notin DOMAIN proposed
    /\ _adjust_interval_based_on_activity(feed_name, entry_count, hint)
    /\ UNCHANGED <<updates, feeds_io, feeds_file, feed_errors, life, polls, missed, dedup, sinks>>

\* len(feed_data.entries) in the polls of a run: every poll of a finds 25
\* entries, every poll of b none.
RunCount(feed_name) == IF feed_name = "a" THEN 25 ELSE 0

\* One more call of _adjust_interval_based_on_activity in the run of the
\* source, on a feed without updated_parsed.
Readjust(feed_name) ==
    /\ _adjust_interval_based_on_activity(feed_name, RunCount(feed_name), "absent")
    /\ UNCHANGED <<updates, feeds_io, feeds_file, feed_errors, life, polls, missed, dedup, sinks>>

\* The count after the failure path ran twice for one poll.
IncrementedTwice(errors, feed_name) == Get(errors, feed_name, 0) + 2

\* self.feed_errors.get(feed_name, 0) + 1
Incremented(errors, feed_name) == Get(errors, feed_name, 0) + 1

\* _process_failed_poll(feed_name, feed_url), then the return of the job body.
FailedPoll(s, E) ==
    LET feed_name == FeedNameOf(s)
        error_count == Incremented(feed_errors, feed_name)
    IN  /\ error_count <= E.cap
        /\ feed_errors' = Put(feed_errors, feed_name, error_count)
        /\ \E jitter \in E.jitters, io_ok \in E.io :
              LET backoff == Backoff(error_count) + jitter
              IN  /\ proposed' = Put(proposed, feed_name, backoff)
                  /\ _update_feed_interval(feed_name, backoff)
                  /\ feeds_file' = update_feed_status(feeds_file, feed_name,
                                        "last_error", error_count, io_ok)
        /\ UNCHANGED <<updates, feeds_io>>
        /\ Complete(s)

\* The branch of _poll_single_feed on what fetch_feed gave, and
\* _process_successful_poll up to its call of _process_feed_entries.
Handle(s, E) ==
    /\ polls[s].pc = "handle"
    /\ IF polls[s].feed_data.kind = "ok"
       THEN /\ feed_errors' = Put(feed_errors, FeedNameOf(s), 0)
            /\ UNCHANGED <<updates, feeds_io, feeds_file, feed_intervals, jobs, proposed>>
            /\ IF polls[s].feed_data.entries # <<>>
               THEN /\ polls' = [polls EXCEPT ![s].pc = "check", ![s].i = 1]
                    /\ UNCHANGED missed
               ELSE Complete(s)
       ELSE FailedPoll(s, E)
    /\ UNCHANGED <<life, dedup, sinks>>

\* The end of one iteration of the loop of _process_feed_entries, with
\* valid_articles as it stands.  After the last entry: with valid articles
\* the call goes on to _save_and_publish_articles; with none it returns None,
\* and "processed > 0" in _process_successful_poll raises TypeError, which
\* _poll_single_feed turns into _process_failed_poll.
NextEntry(s, valid, E) ==
    IF polls[s].i < Len(polls[s].feed_data.entries)
    THEN /\ polls' = [polls EXCEPT ![s].pc = "check", ![s].i = @ + 1,
                                   ![s].valid_articles = valid]
         /\ UNCHANGED <<sched, missed>>
    ELSE IF valid # <<>>
    THEN /\ polls' = [polls EXCEPT ![s].pc = "save", ![s].valid_articles = valid]
         /\ UNCHANGED <<sched, missed>>
    ELSE FailedPoll(s, E)

\* An iteration of _process_feed_entries up to and including the membership
\* test of _is_duplicate.
CheckEntry(s, E) ==
    /\ polls[s].pc = "check"
    /\ LET article_url == polls[s].feed_data.entries[polls[s].i].link
       IN  IF article_url = "" \/ SeenHas(seen_urls, Sha256(article_url))
           THEN NextEntry(s, polls[s].valid_articles, E)
           ELSE /\ polls' = [polls EXCEPT ![s].pc = "add"]
                /\ UNCHANGED <<sched, missed>>
    /\ UNCHANGED <<life, dedup, sinks>>

\* seen_urls.add of _is_duplicate, which returns False, and the rest of the
\* iteration: _create_article_dict and validate_article.
AddEntry(s, E) ==
    /\ polls[s].pc = "add"
    /\ LET entry == polls[s].feed_data.entries[polls[s].i]
           article == _create_article_dict(entry, FeedNameOf(s))
           valid == validate_article(article)
       IN  /\ seen_urls' = SeenAdd(seen_urls, Sha256(entry.link))
           /\ unseen_returns' = [unseen_returns EXCEPT ![entry.link] = @ + 1]
           /\ accepted' = IF valid THEN [accepted EXCEPT ![entry.link] = @ + 1]
                          ELSE accepted
           /\ NextEntry(s, IF valid THEN Append(polls[s].valid_articles, article)
                           ELSE polls[s].valid_articles, E)
    /\ UNCHANGED <<life, sinks>>

\* A store call that writes nothing.
StoredNothing(log, articles) == log

\* log with one more record for each article of the sequence.
Stored(log, articles) ==
    [u \in DOMAIN log |->
        log[u] + Cardinality({k \in 1..Len(articles) : articles[k].link = u})]

\* The two store calls of _save_and_publish_articles.  Either may raise
\* (the exception leaves the call and the poll takes the failure path).
Save(s, E) ==
    /\ polls[s].pc = "save"
    /\ \E outcome \in E.store :
          /\ parsed_articles' = IF outcome = "parsed_raises" THEN parsed_articles
                                ELSE Stored(parsed_articles, polls[s].valid_articles)
          /\ articles_master' = IF outcome = "ok"
                                THEN Stored(articles_master, polls[s].valid_articles)
                                ELSE articles_master
          /\ IF outcome = "ok"
             THEN /\ polls' = [polls EXCEPT ![s].pc = "publish", ![s].i = 1]
                  /\ UNCHANGED <<sched, missed>>
             ELSE FailedPoll(s, E)
    /\ UNCHANGED <<life, dedup, kafka_topic, direct>>

\* kafka_publisher.publish(KAFKA_TOPIC, valid_articles[i]): the article is
\* valid, so it is sent unless producer.send raises (as it does on a closed
\* producer), which publish catches.
\* After the last article _process_feed_entries returns None and
\* "processed > 0" raises TypeError: the poll takes the failure path.
Publish(s, E) ==
    /\ polls[s].pc = "publish"
    /\ \E send_ok \in (IF closed THEN {FALSE} ELSE E.send) :
          LET article == polls[s].valid_articles[polls[s].i]
          IN  kafka_topic' =
                 IF publish(KAFKA_TOPIC, article, send_ok).returned
                 THEN [kafka_topic EXCEPT ![article.link] = @ + 1]
                 ELSE kafka_topic
    /\ IF polls[s].i < Len(polls[s].valid_articles)
       THEN /\ polls' = [polls EXCEPT ![s].i = @ + 1]
            /\ UNCHANGED <<sched, missed>>
       ELSE FailedPoll(s, E)
    /\ UNCHANGED <<life, dedup, parsed_articles, articles_master, direct>>

\* The sources _add_feed_job is called on directly, as load_feeds hands
\* their records on: the configured source and one of the same name at
\* another URL, whose job _update_feed_interval cannot tell from the first.
Registrable ==
    {_apply_defaults(FeedRecord({"name", "url"}, "a", u, 0, 0, TRUE)) :
        u \in FeedUrls}

\* A call of _add_feed_job(feed) on its own, before or after start().
Register(feed) ==
    /\ registrations < MaxRegistrations
    /\ registrations' = registrations + 1
    /\ jobs' = _add_feed_job(jobs, feed_intervals, feed)
    /\ raised' = IF AddRaises(feed_intervals, feed)
                 THEN raised \cup {"_add_feed_job"} ELSE raised
    /\ UNCHANGED <<updates, feeds_io, feeds_file, feed_intervals, feed_errors, proposed, started,
                   stopped, closed, stopping, done, polls, missed, dedup, sinks>>

\* shutdown(), first statement of the try: fetcher.close() closes the HTTP
\* session and the Kafka producer.
ShutdownClose ==
    /\ stopping = "idle"
    /\ closed' = TRUE
    /\ stopping' = "closed"
    /\ UNCHANGED <<sched, started, stopped, done, raised, registrations,
                   polls, missed, dedup, sinks>>

\* shutdown(), second statement: scheduler.shutdown(wait=True).  A scheduler
\* that is not running raises SchedulerNotRunningError, which shutdown() logs
\* and raises again; a running one stops firing and waits for its executor.
ShutdownStop ==
    /\ stopping = "closed"
    /\ IF started /\ ~stopped
       THEN stopped' = TRUE /\ stopping' = "waiting" /\ raised' = raised
       ELSE stopped' = stopped /\ stopping' = "idle"
            /\ raised' = raised \cup {"shutdown"}
    /\ UNCHANGED <<sched, started, closed, done, registrations,
                   polls, missed, dedup, sinks>>

\* scheduler.shutdown(wait=False): the executor is left to itself.
ExecutorLeft == TRUE

\* scheduler.shutdown(wait=True): the executor's pool is joined, which ends
\* when no job is running.
ExecutorJoined == \A s \in Slots : polls[s].pc = "idle"

\* scheduler.shutdown(wait=True) returns once no job is running, and
\* shutdown() returns.
ShutdownReturn ==
    /\ stopping = "waiting"
    /\ ExecutorJoined
    /\ stopping' = "idle"
    /\ done' = TRUE
    /\ UNCHANGED <<sched, started, stopped, closed, raised, registrations,
                   polls, missed, dedup, sinks>>

\* The status dicts the scheduler passes to update_feed_status: the stamp
\* and the error count.
Statuses == {<<"last_success", 0>>, <<"last_error", 1>>}

\* update_feed_status(feed_name, status) in thread c, up to json.load: the
\* file is opened and parsed into feeds, or open raises, which the except
\* clause logs.
UpdateLoad(c, feed_name, status, io_ok) ==
    /\ updates[c].pc = "idle"
    /\ updates' = [updates EXCEPT ![c] =
          IF io_ok
          THEN [pc |-> "loaded", feed_name |-> feed_name, stamp |-> status[1],
                error_count |-> status[2], feeds |-> feeds_file,
                outcome |-> "none"]
          ELSE [NoUpdate EXCEPT !.outcome = "failed"]]
    /\ UNCHANGED <<feeds_io, feeds_file, feed_intervals, feed_errors, jobs,
                   proposed, life, polls, missed, dedup, sinks>>

\* The rest of the call: the loop over feeds, then seek(0), json.dump(feeds)
\* and truncate, which put feeds in the place of whatever the file holds by
\* now.  feed['name'] on a record without a name raises KeyError before
\* anything is written.
UpdateDump(c) ==
    LET call == updates[c]
        i == FirstNamed(call.feeds, call.feed_name)
        key_error == i # 0 /\ "name" \notin call.feeds[i].keys
    IN  /\ call.pc = "loaded"
        /\ feeds_file' =
              IF key_error THEN feeds_file
              ELSE update_feed_status(call.feeds, call.feed_name, call.stamp,
                                      call.error_count, TRUE)
        /\ updates' = [updates EXCEPT ![c] =
              [NoUpdate EXCEPT !.outcome = IF key_error THEN "failed" ELSE "done"]]
        /\ UNCHANGED <<feeds_io, feed_intervals, feed_errors, jobs,
                       proposed, life, polls, missed, dedup, sinks>>

\* The messages publish is called on: each of title, link and published
\* absent, empty or set.
Messages ==
    {Entry(link, title, published) :
        link \in {Missing, "", "u1", "u2"}, title \in {Missing, "", "T"},
        published \in {Missing, "", "P"}}

\* A direct call of KafkaPublisher.publish(topic, message).
PublishCall(topic, message, send_ok) ==
    /\ publish_call' =
          [topic |-> topic, message |-> message, send_ok |-> send_ok,
           returned |-> publish(topic, message, send_ok).returned,
           sends |-> publish(topic, message, send_ok).sends]
    /\ UNCHANGED <<sched, life, polls, missed, dedup,
                   parsed_articles, articles_master, kafka_topic, validation,
                   manager>>

\* The articles filter_valid_articles is called on: two valid ones, one
\* with an empty title and one without a link.
FilterArticles ==
    { Entry("u1", "T", "P"), Entry("u2", "T", "P"),
      Entry("u1", "", "P"), Entry(Missing, "T", "P") }

\* The lists of up to MaxBatch such articles.
Batches == UNION {[1..n -> FilterArticles] : n \in 0..MaxBatch}

\* A call of Validator.filter_valid_articles(articles, feed_name) that
\* returns: the publisher can be built and failed_articles.json written.
FilterCall(articles, feed_name) ==
    /\ validation.calls < MaxCalls
    /\ validation' =
          [FilterLoop(articles, feed_name, [validation EXCEPT !.returned = <<>>])
             EXCEPT !.articles = articles,
                    !.feed_name = feed_name,
                    !.calls = @ + 1,
                    !.passed = Put(@, feed_name, Get(@, feed_name, 0)
                        + Cardinality({k \in 1..Len(articles) :
                             \E field \in {"title", "link", "published"} :
                                articles[k][field] \in {Missing, ""}}))]
    /\ UNCHANGED <<sched, life, polls, missed, dedup,
                   parsed_articles, articles_master, kafka_topic, publish_call,
                   manager>>

\* load_feeds() on the kept FeedManager: the cache is returned when
\* cached_feeds is true and the file is not newer than last_modified, else
\* the file is parsed and the result cached.
ManagerLoad ==
    /\ manager.loads < MaxLoads
    /\ LET hit == manager.cached_feeds # <<>>
                     /\ manager.mtime <= manager.last_modified
       IN  manager' =
              IF hit
              THEN [manager EXCEPT !.loads = @ + 1, !.hit = TRUE,
                                   !.returned = manager.cached_feeds]
              ELSE [manager EXCEPT !.loads = @ + 1, !.hit = FALSE,
                                   !.cached_feeds = load_feeds(feeds_file),
                                   !.last_modified = manager.mtime,
                                   !.parsed_mtime = manager.mtime,
                                   !.returned = load_feeds(feeds_file)]
    /\ UNCHANGED <<sched, life, polls, missed, dedup, parsed_articles,
                   articles_master, kafka_topic, publish_call, validation>>

\* update_feed_status(feed_name, status) on the kept FeedManager: the file
\* is written and the cache invalidated.
ManagerUpdate(feed_name, status) ==
    /\ manager.mtime <= MaxEdits
    /\ feeds_file' = update_feed_status(feeds_file, feed_name, status[1],
                                        status[2], TRUE)
    /\ manager' = [manager EXCEPT !.mtime = @ + 1, !.cached_feeds = <<>>,
                                  !.parsed_mtime = 0]
    /\ UNCHANGED <<updates, feeds_io, feed_intervals, feed_errors, jobs,
                   proposed, life, polls, missed, dedup, parsed_articles,
                   articles_master, kafka_topic, publish_call, validation>>

\* feeds.json is rewritten by its owner: the modification time advances.
FileEdit(file) ==
    /\ manager.mtime <= MaxEdits
    /\ feeds_file' = file
    /\ manager' = [manager EXCEPT !.mtime = @ + 1]
    /\ UNCHANGED <<updates, feeds_io, feed_intervals, feed_errors, jobs,
                   proposed, life, polls, missed, dedup, parsed_articles,
                   articles_master, kafka_topic, publish_call, validation>>

\* The scheduler in environment E.
NextIn(E) ==
    \/ Start
    \/ \E j \in JobIds : Fire(j) \/ FireSkipped(j)
    \/ \E s \in Slots :
          \/ Fetch(s, E) \/ Handle(s, E) \/ CheckEntry(s, E)
          \/ AddEntry(s, E) \/ Save(s, E) \/ Publish(s, E)

Next == NextIn(EnvCalm)

NextSolo == NextIn(EnvAll)

NextBusy == NextIn(EnvBusy)

NextStorm == NextIn(EnvStorm)

\* The scheduler while every fetch fails.
NextDown ==
    \/ Start
    \/ \E j \in JobIds : Fire(j) \/ FireSkipped(j)
    \/ \E s \in Slots : Fetch(s, EnvDown) \/ Handle(s, EnvDown)

\* Registrations between the polls of failing sources, whose intervals
\* move from one registration to the next.
NextRegister ==
    \/ Start
    \/ \E feed \in Registrable : Register(feed)
    \/ \E j \in JobIds : Fire(j) \/ FireSkipped(j)
    \/ \E s \in Slots : Fetch(s, EnvBrief) \/ Handle(s, EnvBrief)

\* start() on its own.
NextBatch == Start

\* The scheduler with calls of shutdown(), made at any time and any number
\* of times.
NextStop ==
    \/ NextIn(EnvCalm)
    \/ ShutdownClose
    \/ ShutdownStop
    \/ ShutdownReturn

\* Calls of update_feed_status from the threads of the pool, as the polls of
\* different sources make them.
NextUpdate ==
    \/ \E c \in Threads, feed_name \in FeedNames, status \in Statuses,
          io_ok \in BOOLEAN : UpdateLoad(c, feed_name, status, io_ok)
    \/ \E c \in Threads : UpdateDump(c)

\* Calls of publish, on the article topic and on the dead-letter topic (as
\* Validator.filter_valid_articles makes them), with a broker that takes the
\* send or not.
NextPublish ==
    \E topic \in {KAFKA_TOPIC, KAFKA_DEAD_LETTER_TOPIC}, message \in Messages,
       send_ok \in BOOLEAN : PublishCall(topic, message, send_ok)

\* Calls of filter_valid_articles, one after the other.
NextFilter ==
    \E articles \in Batches, feed_name \in FeedNames :
        FilterCall(articles, feed_name)

NextHinted == NextIn(EnvHinted)
NextShared == NextIn(EnvShared)

\* Reads, updates and edits of the registry through one FeedManager.
NextCache ==
    \/ ManagerLoad
    \/ \E feed_name \in FeedNames, status \in Statuses :
          ManagerUpdate(feed_name, status)
    \/ \E file \in CacheFiles : FileEdit(file)

\* feeds.json is edited while the program runs: record i is marked inactive.
Deactivate(i) ==
    /\ i \in 1..Len(feeds_file)
    /\ "active" \in feeds_file[i].keys => feeds_file[i].active
    /\ feeds_file' = [feeds_file EXCEPT ![i].active = FALSE,
                                        ![i].keys = @ \cup {"active"}]
    /\ UNCHANGED <<updates, feeds_io, feed_intervals, feed_errors, jobs,
                   proposed, life, polls, missed, dedup, sinks>>

\* feeds.json is edited while the program runs: record i gets another url.
Retarget(i, url) ==
    /\ i \in 1..Len(feeds_file)
    /\ feeds_file[i].url # url
    /\ feeds_file' = [feeds_file EXCEPT ![i].url = url]
    /\ UNCHANGED <<updates, feeds_io, feed_intervals, feed_errors, jobs,
                   proposed, life, polls, missed, dedup, sinks>>

\* What the scheduler and its executor do with a quiet source.
NextQuiet ==
    \/ Start
    \/ \E j \in JobIds : Fire(j) \/ FireSkipped(j)
    \/ \E s \in Slots : Fetch(s, EnvQuiet) \/ Handle(s, EnvQuiet)

\* The same while feeds.json is edited.
NextEdit ==
    \/ NextQuiet
    \/ \E i \in 1..MaxRecords : Deactivate(i)
    \/ \E i \in 1..MaxRecords, url \in FeedUrls : Retarget(i, url)

\* The scheduler while every fetch fails, each source followed for a few
\* failures.
NextBrief ==
    \/ Start
    \/ \E j \in JobIds : Fire(j) \/ FireSkipped(j)
    \/ \E s \in Slots : Fetch(s, EnvBrief) \/ Handle(s, EnvBrief)

\* The interval policy called on its own, before or after start().
NextPolicy ==
    \/ Start
    \/ \E n \in FeedNames, c \in EntryCounts, h \in Hints : Adjust(n, c, h)

\* The interval policy called again and again on a busy and a quiet source.
NextRuns ==
    \/ Start
    \/ \E n \in FeedNames : Readjust(n)

\* Two sources polled concurrently.
Spec == Init /\ [][Next]_vars

\* One source, hence one poll at a time, in the full environment.
SpecSolo == InitSolo /\ [][NextSolo]_vars

\* Two sources polled concurrently while fetches and stores raise.
SpecStorm == Init /\ [][NextStorm]_vars

\* start() on any file of entries, well formed or not.
SpecLoad == InitLoad /\ [][NextBatch]_vars

\* One source, polled and shut down.
SpecStop == InitSolo /\ [][NextStop]_vars

\* start() over every registry of the batch records.
SpecBatch == InitBatch /\ [][NextBatch]_vars

\* One configured source, and registrations of it and of its namesake.
SpecRegister == InitSolo /\ [][NextRegister]_vars

\* One source whose every poll gets the busy feed.
SpecBusy == InitBusy /\ [][NextBusy]_vars

\* One source whose fetches all fail.
SpecDown == InitSolo /\ [][NextDown]_vars

\* KafkaPublisher.publish called on its own.
SpecPublish == InitSolo /\ [][NextPublish]_vars

\* Validator.filter_valid_articles called on its own.
SpecFilter == InitSolo /\ [][NextFilter]_vars

\* Two sources of one name, both down.
SpecNamesakes == InitNamesakes /\ [][NextBrief]_vars

\* Two sources polled while their records are edited.  The scheduler's
\* thread and the pool's threads keep running: a step they can take is
\* taken in the end.
SpecEdit == Init /\ [][NextEdit]_vars /\ WF_vars(NextQuiet)

\* Two sources whose feeds carry the same links, polled concurrently.
SpecShared == Init /\ [][NextShared]_vars

\* Runs of busy polls of a and of empty polls of b, as the policy sees them.
SpecRuns == InitRuns /\ [][NextRuns]_vars

\* One FeedManager read again and again.
SpecCache == InitCache /\ [][NextCache]_vars

\* One source whose feed carries updated_parsed.
SpecHinted == InitSolo /\ [][NextHinted]_vars

\* update_feed_status called from the pool's threads.
SpecUpdate == InitUpdate /\ [][NextUpdate]_vars

\* The interval policy on its own: one configured source "a", and a name
\* "b" the scheduler holds no interval for.
SpecPolicy == InitPolicy /\ [][NextPolicy]_vars

(******************************* claims ************************************)
InFlight(s) == polls[s].pc # "idle"

\* The step ends the poll in slot s.
Completes(s) == InFlight(s) /\ polls'[s].pc = "idle"

\* The entry the poll in slot s is at.
EntryAt(s) == polls[s].feed_data.entries[polls[s].i]

\* C1: at most one poll of a source is in flight at any time, and a firing
\* of its job that arrives during the running poll is dropped: it happens
\* only while that one poll runs, starts no second poll and changes nothing
\* of the running one.
C1_SingleInstance ==
    /\ [](\A j \in JobIds : Running(j) <= 1 /\ (j \in missed => Running(j) = 1))
    /\ [][\A j \in JobIds : (j \in missed' /\ j \notin missed) => polls' = polls]_vars

\* A firing of a job was dropped while its poll is in flight.
C1_Witness == \E j \in JobIds : j \in missed /\ Running(j) = 1

\* C2: a poll whose fetch fails ends with the source's error count one above
\* its value before, and a poll whose fetch and parse succeed, with or
\* without entries, ends with the error count at 0.
C2_ErrorCountPerPoll ==
    [][\A s \in Slots :
          Completes(s) =>
             /\ polls[s].feed_data.kind \in {"error", "bozo"} =>
                   Get(feed_errors', FeedNameOf(s), 0)
                      = Get(feed_errors, FeedNameOf(s), 0) + 1
             /\ polls[s].feed_data.kind = "ok" =>
                   Get(feed_errors', FeedNameOf(s), 0) = 0]_vars

\* C3: with the calls of _is_duplicate made one after the other, the call
\* returns False exactly once per URL, on the first call for it: a URL has
\* one False return iff it is in seen_urls, never more, and a call that is
\* about to return False is the first for its URL.
C3_UnseenExactlyOnce ==
    /\ \A u \in ArticleUrls :
          /\ unseen_returns[u] <= 1
          /\ unseen_returns[u] = 1 <=> Sha256(u) \in seen_urls
    /\ \A s \in Slots :
          polls[s].pc = "add" => unseen_returns[EntryAt(s).link] = 0

\* A second call for a URL that already had its False return is about to be
\* made.
C3_Witness ==
    \E s \in Slots :
        /\ polls[s].pc = "check"
        /\ EntryAt(s).link # ""
        /\ unseen_returns[EntryAt(s).link] = 1

\* C4: with polls of different sources running concurrently, at most one
\* call of _is_duplicate observes a URL as unseen.
C4_AtomicCheckAndSet == \A u \in ArticleUrls : unseen_returns[u] <= 1

\* C5: a URL that was in seen_urls when a poll started is never in that
\* poll's valid_articles, and no step of that poll stores or publishes it.
C5_LaterPollSkipsSeen ==
    /\ [](\A s \in Slots : \A k \in 1..Len(polls[s].valid_articles) :
             Sha256(polls[s].valid_articles[k].link) \notin polls[s].pre_seen)
    /\ [][\A s \in Slots, u \in ArticleUrls :
             (Sha256(u) \in polls[s].pre_seen /\ polls'[s] # polls[s]) =>
                /\ parsed_articles'[u] = parsed_articles[u]
                /\ articles_master'[u] = articles_master[u]
                /\ kafka_topic'[u] = kafka_topic[u]]_vars

\* The first poll of source "b" that gets entries is past an entry whose URL
\* a poll of source "a" had marked before it started, and goes on to store
\* and publish.
C5_Witness ==
    \E s \in Slots :
        /\ FeedNameOf(s) = "b"
        /\ "b" \notin DOMAIN proposed
        /\ polls[s].pc = "save"
        /\ \E k \in 1..Len(polls[s].feed_data.entries) :
              Sha256(polls[s].feed_data.entries[k].link) \in polls[s].pre_seen

\* C6: once no poll is in flight, every URL that passed deduplication and
\* validation has exactly one record in each store and one message on the
\* topic.
C6_ExactlyOnce ==
    (\A s \in Slots : ~InFlight(s)) =>
        \A u \in ArticleUrls :
            accepted[u] > 0 =>
                /\ parsed_articles[u] = 1
                /\ articles_master[u] = 1
                /\ kafka_topic[u] = 1

\* C7: the pre-jitter backoff the failure path computed for a source with
\* error count e is Backoff(e), which is at least Backoff(e - 1), at most
\* 86400, exactly 3600 * 2^e below the cap and exactly 86400 from e = 5 on
\* (3600 * 2^5 = 115200 is the first product above 86400), e = 30 included.
C7_BackoffCapped ==
    \A n \in DOMAIN proposed :
        LET e == feed_errors[n]
        IN  /\ proposed[n] - Backoff(e) \in JitterValues
            /\ Backoff(e - 1) <= Backoff(e)
            /\ Backoff(e) <= 86400
            /\ e < 5 => Backoff(e) = 3600 * 2^e
            /\ e >= 5 => Backoff(e) = 86400

\* A source has failed 30 times in a row.
C7_Witness ==
    \E n \in DOMAIN proposed : feed_errors[n] = 30 /\ proposed[n] >= 86400

\* C8: the interval held for a source, and the interval of every job's
\* trigger, is within [MIN_POLL_INTERVAL, MAX_POLL_INTERVAL].
C8_IntervalInRange ==
    /\ \A n \in DOMAIN feed_intervals :
          MIN_POLL_INTERVAL <= feed_intervals[n] /\ feed_intervals[n] <= MAX_POLL_INTERVAL
    /\ \A j \in DOMAIN jobs :
          MIN_POLL_INTERVAL <= jobs[j].interval /\ jobs[j].interval <= MAX_POLL_INTERVAL

\* C9: a poll whose fetch fails leaves the source's interval and its job's
\* trigger at the backoff it computed, and that interval is not below the
\* one the source had before.
C9_FailureAlwaysReschedules ==
    [][\A s \in Slots :
          (Completes(s) /\ polls[s].feed_data.kind \in {"error", "bozo"}) =>
             LET n == FeedNameOf(s)
             IN  /\ feed_intervals'[n] = proposed'[n]
                 /\ jobs'[s[1]].interval = proposed'[n]
                 /\ feed_intervals'[n] >= feed_intervals[n]]_vars

\* C10: when _adjust_interval_based_on_activity proposes for a source an
\* interval within 60 seconds of its current one (the stored interval, or
\* the default when none is stored), feed_intervals and every job's trigger
\* stay as they were.
C10_SmallChangeIsNoOp ==
    [][\A n \in FeedNames :
          (/\ n \in DOMAIN proposed' /\ n \notin DOMAIN proposed
           /\ Abs(proposed'[n] - Get(feed_intervals, n, DEFAULT_FEED_INTERVAL)) <= 60)
          => feed_intervals' = feed_intervals /\ jobs' = jobs]_vars

\* The policy proposed an interval that differs from the stored one by at
\* most 60 seconds, and the stored interval and the job's trigger kept
\* their value.
C10_Witness ==
    \E n \in DOMAIN proposed \cap DOMAIN feed_intervals :
        /\ proposed[n] # feed_intervals[n]
        /\ Abs(proposed[n] - feed_intervals[n]) <= 60
        /\ \E j \in DOMAIN jobs : jobs[j].name = n /\ jobs[j].interval = feed_intervals[n]

\* C11: a poll of a source with no freshness hint that accepted more than
\* 20 entries leaves the source's interval, and its job's trigger, at
\* max(current * 0.8, MIN_POLL_INTERVAL) when that differs from the current
\* interval by more than 60 seconds (2880 for a source at 3600).
C11_BusyPollSpeedsUp ==
    [][\A s \in Slots :
          (/\ Completes(s)
           /\ polls[s].feed_data.kind = "ok"
           /\ Len(polls[s].valid_articles) > 20) =>
             LET n == FeedNameOf(s)
                 current == Get(feed_intervals, n, DEFAULT_FEED_INTERVAL)
                 new == NewInterval(current, Len(polls[s].feed_data.entries), "absent")
             IN  Abs(new - current) > 60 =>
                    /\ feed_intervals'[n] = new
                    /\ jobs'[s[1]].interval = new]_vars

\* C12: a poll whose fetch succeeds and that accepts no entry (the feed is
\* empty, or every entry is a duplicate or invalid) leaves the source's
\* interval, and its job's trigger, at min(current * 1.2, MAX_POLL_INTERVAL)
\* when that differs from the current interval by more than 60 seconds
\* (4320 for a source at 3600).
C12_QuietPollSlowsDown ==
    [][\A s \in Slots :
          (/\ Completes(s)
           /\ polls[s].feed_data.kind = "ok"
           /\ polls[s].valid_articles = <<>>) =>
             LET n == FeedNameOf(s)
                 current == Get(feed_intervals, n, DEFAULT_FEED_INTERVAL)
                 new == NewInterval(current, 0, "absent")
             IN  Abs(new - current) > 60 =>
                    /\ feed_intervals'[n] = new
                    /\ jobs'[s[1]].interval = new]_vars

\* C13: when a poll completes, the registry record of its source holds the
\* scheduler's error count for it; after a poll whose fetch succeeded that
\* count is 0 and the record has a last_success, after one whose fetch
\* failed the record has a last_error.
C13_RegistryReflectsOutcome ==
    [][\A s \in Slots :
          (Completes(s) /\ polls[s].feed_data.kind \in {"ok", "error", "bozo"}) =>
             LET n == FeedNameOf(s)
                 i == FirstNamed(feeds_file', n)
             IN  /\ i # 0
                 /\ "error_count" \in feeds_file'[i].keys
                 /\ feeds_file'[i].error_count = Get(feed_errors', n, 0)
                 /\ polls[s].feed_data.kind = "ok" =>
                       /\ feeds_file'[i].error_count = 0
                       /\ "last_success" \in feeds_file'[i].keys
                 /\ polls[s].feed_data.kind # "ok" =>
                       "last_error" \in feeds_file'[i].keys]_vars

\* C14: a poll whose fetch is answered 304 Not Modified completes with the
\* source's error count, its interval, the job table and the registry as
\* they were.
C14_NotModifiedIsNoError ==
    [][\A s \in Slots :
          (Completes(s) /\ polls[s].feed_data.kind = "not_modified") =>
             /\ feed_errors' = feed_errors
             /\ feed_intervals' = feed_intervals
             /\ jobs' = jobs
             /\ feeds_file' = feeds_file]_vars

C16_RegisterIdempotent ==
    [][\A feed \in Registrable :
          Register(feed) =>
             LET job_id == JobId(feed.name, feed.url)
             IN  /\ DOMAIN jobs' = DOMAIN jobs \cup {job_id}
                 /\ jobs'[job_id] =
                       [name |-> feed.name, url |-> feed.url,
                        interval |-> Get(feed_intervals, feed.name,
                                         DEFAULT_FEED_INTERVAL)]
                 /\ \A k \in DOMAIN jobs \ {job_id} : jobs'[k] = jobs[k]]_vars

\* After start() and two failures, each of which rescheduled one of the two
\* jobs named "Poll a", both jobs are at the interval held now: a
\* registration made since replaced the job that was left behind.
C16_Witness ==
    /\ started
    /\ Get(feed_errors, "a", 0) = MaxErrors
    /\ \A u \in FeedUrls :
          /\ JobId("a", u) \in DOMAIN jobs
          /\ jobs[JobId("a", u)].interval = feed_intervals["a"]

\* Record i of the registry has a name and a url.
WellFormed(file, i) ==
    /\ {"name", "url"} \subseteq file[i].keys
    /\ file[i].name # "" /\ file[i].url # ""

\* The records that are sources: well formed, the first of their (name, url)
\* pair, and active.
Sources(file) ==
    {i \in 1..Len(file) :
        /\ WellFormed(file, i)
        /\ \A k \in 1..(i - 1) :
              WellFormed(file, k) =>
                 <<file[k].name, file[k].url>> # <<file[i].name, file[i].url>>
        /\ "active" \in file[i].keys => file[i].active}

\* Record i has a priority that add_job fails on, or an interval that is
\* not a number.
BadPriority(file, i) == "priority" \in file[i].keys /\ file[i].priority = Unhashable
BadInterval(file, i) == "interval" \in file[i].keys /\ file[i].interval = NotANumber

\* C17: once start() was called it has not raised, and the job table holds
\* exactly the jobs of the well-formed, active, distinct (name, url) sources
\* of the registry (those whose add_job was accepted), and so none for a
\* record without a name or url and none for an inactive source.
C17_StartRegistersSources ==
    (started \/ "start" \in raised) =>
        /\ "start" \notin raised
        /\ DOMAIN jobs =
              {JobId(feeds_file[i].name, feeds_file[i].url) :
                  i \in {k \in Sources(feeds_file) : ~BadPriority(feeds_file, k)}}

\* C18: once start() was called it has not raised, a source whose interval
\* is not a number or whose add_job failed has no job, and every other
\* source of the registry has its job.
C18_BadSourceIsSkipped ==
    (started \/ "start" \in raised) =>
        /\ "start" \notin raised
        /\ \A i \in Sources(feeds_file) :
              JobId(feeds_file[i].name, feeds_file[i].url) \in DOMAIN jobs
                 <=> ~(BadInterval(feeds_file, i) \/ BadPriority(feeds_file, i))

\* C19: while the fetcher's HTTP session and producer are closed, no poll is
\* in flight and none can start: a started scheduler has been stopped.
C19_CloseAfterPolls ==
    closed =>
        /\ \A s \in Slots : ~InFlight(s)
        /\ started => stopped

\* C20: once a call of shutdown() has returned, a further call raises
\* nothing and changes nothing of the scheduler, the fetcher or the registry.
C20_ShutdownIdempotent ==
    [][done =>
          /\ raised' = raised
          /\ UNCHANGED <<sched, started, stopped, closed, polls, missed, dedup, sinks>>]_vars

\* C21: once a call of shutdown() has returned, no poll of any source is in
\* flight, in this state and in every later one: no poll starts afterwards.
C21_NoPollAfterShutdown ==
    done => \A s \in Slots : ~InFlight(s)

\* shutdown() has returned on a scheduler whose polls had fetched entries.
C21_Witness ==
    /\ done
    /\ seen_urls # {}
    /\ jobs # EmptyDict

\* Entry i of the file is a mapping with a non-empty string name and url.
IsSource(file, i) ==
    /\ file[i] # NotADict
    /\ {"name", "url"} \subseteq file[i].keys
    /\ file[i].name \notin {"", NotAString}
    /\ file[i].url \notin {"", NotAString}

\* The entries to keep: sources with no earlier source of their pair.
Kept(file) ==
    {i \in 1..Len(file) :
        /\ IsSource(file, i)
        /\ \A k \in 1..(i - 1) :
              IsSource(file, k) =>
                 file[k].name # file[i].name \/ file[k].url # file[i].url}

\* C22: load_feeds on a file that can be read returns the records of the
\* kept entries (a mapping with non-empty string name and url, the first of
\* its (name, url) pair) in file order, so namesakes at different urls are
\* both returned.
C22_LoadKeepsFirstOfEachPair ==
    LET out == LoadFeeds(feeds_io, feeds_file)
        kept == Kept(feeds_file)
    IN  feeds_io = "ok" =>
        /\ Len(out) = Cardinality(kept)
        /\ \A i \in kept :
              out[1 + Cardinality({k \in kept : k < i})]
                 = _apply_defaults(feeds_file[i])

\* start() has loaded a file that holds a source, its pair once more with
\* another interval and a namesake at another url.
C22_Witness ==
    /\ started
    /\ feeds_io = "ok"
    /\ Len(feeds_file) = 3
    /\ feeds_file[1].name = "a" /\ feeds_file[1].url = "fa"
    /\ feeds_file[2].name = "a" /\ feeds_file[2].url = "fa"
    /\ feeds_file[2].interval = 7200
    /\ feeds_file[3].name = "a" /\ feeds_file[3].url = "fb"
    /\ Len(LoadFeeds(feeds_io, feeds_file)) = 2

\* C23: with feeds.json missing, unreadable or not valid JSON, load_feeds
\* raises nothing and returns the empty sequence, get_active_feeds returns
\* the empty sequence, and start() does not raise and registers no job.
C23_LoadFailsSoft ==
    feeds_io # "ok" =>
        /\ ~LoadRaises(feeds_io)
        /\ LoadFeeds(feeds_io, feeds_file) = <<>>
        /\ ActiveFeeds(feeds_io, feeds_file) = <<>>
        /\ "start" \notin raised
        /\ jobs = EmptyDict

\* start() has returned on a feeds.json that is not JSON and would hold a
\* source if it were.
C23_Witness ==
    /\ feeds_io = "invalid json"
    /\ started
    /\ Len(feeds_file) > 0
    /\ IsSource(feeds_file, 1)

\* C24: a call of update_feed_status that succeeds leaves in the file the
\* record matching the name with the status merged in and last_updated
\* stamped, and every other record as the file held it; a call that fails
\* leaves the file as it was.
C24_UpdateFrame ==
    [][\A c \in Threads :
          updates'[c] # updates[c] /\ updates'[c].pc = "idle" =>
             LET call == updates[c]
                 i == FirstNamed(feeds_file, call.feed_name)
             IN  IF updates'[c].outcome = "done"
                 THEN /\ Len(feeds_file') = Len(feeds_file)
                      /\ \A k \in 1..Len(feeds_file) :
                            k # i => feeds_file'[k] = feeds_file[k]
                      /\ i # 0 =>
                            /\ {call.stamp, "error_count", "last_updated"}
                                  \subseteq feeds_file'[i].keys
                            /\ feeds_file'[i].error_count = call.error_count
                 ELSE feeds_file' = feeds_file]_vars

\* The message has a non-empty title, link and published.
HasAllFields(message) ==
    /\ message.title \notin {Missing, ""}
    /\ message.link \notin {Missing, ""}
    /\ message.published \notin {Missing, ""}

\* C25: publish returns True exactly when the message has a non-empty
\* title, link and published and producer.send does not raise, and then the
\* producer was sent the message once, on the topic given, and nothing
\* else; a message that fails validation is never sent.
C25_PublishReturnsTrueIffSent ==
    publish_call # NoCall =>
        LET call == publish_call
        IN  /\ call.returned <=> (HasAllFields(call.message) /\ call.send_ok)
            /\ call.returned => call.sends = << <<call.topic, call.message>> >>
            /\ ~HasAllFields(call.message) =>
                   \A k \in 1..Len(call.sends) : call.sends[k][2] # call.message

\* publish has sent a complete message to the article topic.
C25_Witness ==
    /\ publish_call.topic = KAFKA_TOPIC
    /\ HasAllFields(publish_call.message)
    /\ publish_call.returned
    /\ Len(publish_call.sends) = 1

\* C26: with dead-lettering enabled, a call of publish that returned False
\* has sent exactly one record to the dead-letter topic, which wraps the
\* original message and the reason of the failure.
C26_FailureIsDeadLettered ==
    (publish_call # NoCall /\ ~publish_call.returned /\ SEND_TO_DEAD_LETTER_TOPIC) =>
        /\ Len(publish_call.sends) = 1
        /\ publish_call.sends[1][1] = KAFKA_DEAD_LETTER_TOPIC
        /\ publish_call.sends[1][2].original_message = publish_call.message

\* C27: a call of filter_valid_articles returns the valid articles of its
\* input in input order, and after any calls the counter of each feed is
\* the number of invalid articles passed for it so far, with one call of
\* the dead-letter publisher for each of them.
C27_FilterCountsInvalid ==
    LET v == validation
        valid == {k \in 1..Len(v.articles) : HasAllFields(v.articles[k])}
    IN  /\ Len(v.returned) = Cardinality(valid)
        /\ \A k \in valid :
              v.returned[1 + Cardinality({j \in valid : j < k})] = v.articles[k]
        /\ \A feed \in FeedNames :
              Get(v.failed_articles_counter, feed, 0) = Get(v.passed, feed, 0)
        /\ v.publish_calls = Get(v.passed, "a", 0) + Get(v.passed, "b", 0)

\* Calls for both feeds have passed invalid articles, the last one a valid
\* article after an invalid one.
C27_Witness ==
    /\ Get(validation.failed_articles_counter, "a", 0) >= 2
    /\ Get(validation.failed_articles_counter, "b", 0) >= 1
    /\ Len(validation.articles) = 2
    /\ ~HasAllFields(validation.articles[1])
    /\ validation.returned = <<validation.articles[2]>>

\* C28: the interval computed after a successful poll comes from the number
\* of entries accepted, not fetched: a poll whose fetch succeeds with
\* entries of which none is accepted (all duplicates or invalid) proposes
\* the slow-down interval min(current * 1.2, MAX_POLL_INTERVAL).
C28_AcceptedCountDrivesPolicy ==
    [][\A s \in Slots :
          (/\ Completes(s)
           /\ polls[s].feed_data.kind = "ok"
           /\ polls[s].feed_data.entries # <<>>
           /\ polls[s].valid_articles = <<>>) =>
             LET n == FeedNameOf(s)
                 current == Get(feed_intervals, n, DEFAULT_FEED_INTERVAL)
             IN  /\ n \in DOMAIN proposed'
                 /\ proposed'[n] = NewInterval(current, 0, "absent")]_vars

\* C29: a successful poll of a feed that says when it was last updated
\* proposes MIN_POLL_INTERVAL when that was less than an hour ago and 1800
\* when it was less than a day ago, whatever the number of entries; with a
\* hint a day old or older the proposal is that of the entry count.
C29_ServerHintOverrides ==
    [][\A s \in Slots :
          (Completes(s) /\ polls[s].feed_data.kind = "ok") =>
             LET n == FeedNameOf(s)
                 hint == polls[s].feed_data.hint
                 current == Get(feed_intervals, n, DEFAULT_FEED_INTERVAL)
                 by_count == NewInterval(current,
                                Len(polls[s].feed_data.entries), "absent")
             IN  /\ n \in DOMAIN proposed'
                 /\ proposed'[n] = IF hint = "lt_hour" THEN MIN_POLL_INTERVAL
                                   ELSE IF hint = "lt_day" THEN 1800
                                   ELSE by_count]_vars

\* C30: the reschedule a poll of a source makes goes to the job of that
\* source, the one of its (name, url) pair: the poll changes the trigger of
\* no other job, removes none and creates none.
C30_RescheduleOwnJob ==
    [][\A s \in Slots :
          Completes(s) =>
             /\ DOMAIN jobs' = DOMAIN jobs
             /\ \A j \in DOMAIN jobs : j # s[1] => jobs'[j] = jobs[j]]_vars

\* C31: a step of the poll of one source leaves the error count and the
\* interval of every other registered source, a namesake at another url
\* included, as they were: the count and interval the scheduler holds for
\* it and the trigger of its job.
C31_PollTouchesOwnSourceOnly ==
    [][\A s \in Slots :
          (InFlight(s) /\ polls'[s] # polls[s]) =>
             \A j \in DOMAIN jobs :
                j # s[1] =>
                   /\ j \in DOMAIN jobs' /\ jobs'[j].interval = jobs[j].interval
                   /\ Get(feed_errors', jobs[j].name, 0)
                         = Get(feed_errors, jobs[j].name, 0)
                   /\ Get(feed_intervals', jobs[j].name, 0)
                         = Get(feed_intervals, jobs[j].name, 0)]_vars

\* Job j is registered and the registry holds no active source of its
\* (name, url) pair any more.
Orphan(j) ==
    /\ started
    /\ j \in DOMAIN jobs
    /\ \A i \in 1..Len(get_active_feeds(feeds_file)) :
          JobId(get_active_feeds(feeds_file)[i].name,
                get_active_feeds(feeds_file)[i].url) # j

\* C32: when the source of a registered job is marked inactive, or given
\* another url, in the registry of a running scheduler, the job is removed
\* in the end and the old (name, url) is not polled from then on.
C32_OrphanJobIsRemoved ==
    \A j \in JobIds :
        Orphan(j) ~> [](/\ j \notin DOMAIN jobs
                        /\ \A k \in 1..MaxSlots : ~InFlight(<<j, k>>))

C34_CacheKeyedByMtime ==
    [][manager'.loads # manager.loads =>
          /\ manager'.hit <=> manager.parsed_mtime = manager.mtime
          /\ manager'.returned = load_feeds(feeds_file)]_vars

\* C35: when a call of update_feed_status returns after writing, every
\* record of the file still carries each status another call had recorded in
\* it: no worker's write of the whole list undoes another worker's.
C35_BothOutcomesKept ==
    [][\A c \in Threads :
          updates'[c] # updates[c] /\ updates'[c].outcome = "done" =>
             /\ Len(feeds_file') = Len(feeds_file)
             /\ \A k \in 1..Len(feeds_file) :
                   feeds_file[k].keys \subseteq feeds_file'[k].keys]_vars

\* The poll in slot s has passed the membership test for url and stands
\* before seen_urls.add.
AtAdd(s, url) == polls[s].pc = "add" /\ EntryAt(s).link = url

\* C36: the iteration that finds a URL unseen marks it seen whether or not
\* its entry is valid; a poll of any source that tests a seen URL skips the
\* entry; and a URL marked seen by entries that failed validation only is
\* never accepted, stored or published afterwards by a poll that tests it
\* after the mark.
C36_SeenBeforeValidation ==
    [][\A url \in ArticleUrls :
          /\ accepted'[url] = 0 =>
                /\ parsed_articles'[url] = 0
                /\ articles_master'[url] = 0
                /\ kafka_topic'[url] = 0
          /\ \A s \in Slots :
                /\ AtAdd(s, url) /\ polls'[s] # polls[s] =>
                      Sha256(url) \in seen_urls'
                /\ /\ polls[s].pc = "check"
                   /\ EntryAt(s).link = url
                   /\ Sha256(url) \in seen_urls
                   => /\ polls'[s].pc # "add"
                      /\ polls'[s].valid_articles = polls[s].valid_articles
          /\ /\ Sha256(url) \in seen_urls
             /\ accepted[url] = 0
             /\ \A s \in Slots : ~AtAdd(s, url)
             => accepted'[url] = 0]_vars

\* A URL was marked seen by an invalid entry and never accepted, and a poll
\* has gone past a valid entry with that URL.
C36_Witness ==
    \E url \in ArticleUrls, s \in Slots :
        /\ Sha256(url) \in seen_urls
        /\ accepted[url] = 0
        /\ polls[s].pc = "check"
        /\ polls[s].i > 1
        /\ polls[s].valid_articles = <<>>
        /\ polls[s].feed_data.entries[1] = Entry(url, "T", "P")

\* C37: the interval the scheduler holds in feed_intervals for a source is
\* the interval of the trigger of the source's registered job, in every
\* state (an update of the two is one step of the poll).
C37_IntervalMatchesTrigger ==
    \A j \in DOMAIN jobs :
        jobs[j].name \in DOMAIN feed_intervals =>
           jobs[j].interval = feed_intervals[jobs[j].name]

\* C38: in a run of polls with more than 20 entries and no freshness hint,
\* each call of the policy leaves the interval no higher, and lower unless
\* it is MIN_POLL_INTERVAL already, so that the run ends at exactly
\* MIN_POLL_INTERVAL; in a run of polls without entries each call leaves it
\* no lower, and higher unless it is MAX_POLL_INTERVAL already.  (The policy
\* is a function of the interval: a call that leaves an interval as it is
\* leaves it so in every later call of the run.)
C38_RunsConverge ==
    [][\A n \in FeedNames :
          Get(proposed', n, 0) # Get(proposed, n, 0) =>
             IF RunCount(n) > 20
             THEN /\ feed_intervals'[n] <= feed_intervals[n]
                  /\ feed_intervals[n] # MIN_POLL_INTERVAL =>
                        feed_intervals'[n] < feed_intervals[n]
             ELSE /\ feed_intervals'[n] >= feed_intervals[n]
                  /\ feed_intervals[n] # MAX_POLL_INTERVAL =>
                        feed_intervals'[n] > feed_intervals[n]]_vars

====
